---- MODULE Spec2Model ----
(***************************************************************************)
(* commitlint.py: a linter of the latest commit message of a Git           *)
(* repository.  The module models main() as a state machine (Spec) and the *)
(* seven check functions as operators over strings, which a second         *)
(* specification (SpecChecks) applies to messages drawn from a bounded     *)
(* set.                                                                    *)
(*                                                                         *)
(* A Python str is a sequence of one-character strings.  A Python value    *)
(* handed to a check is a record [kind, s]: a str, a function object or    *)
(* None.  The outcome of a call is a record [exc, ret]: exc is the name of *)
(* the exception raised ("" when the call returns) and ret the returned    *)
(* value, "True", "False" or "None" ("" when the call raises).             *)
(***************************************************************************)
EXTENDS Integers, Sequences, FiniteSets

VARIABLES
    argv,          \* sys.argv
    fs,            \* what git finds at each path
    pc,            \* position of main(): "start", "checks", "done"
    stmt,          \* index of the next statement of main() after line 158
    last_commit,   \* main's local last_commit
    error_count,   \* main's local error_count
    calls,         \* the calls of check functions made so far, with their outcomes
    git_path,      \* the path handed to git -C ("" while git has not run)
    stdout,        \* lines printed, as tags
    exc,           \* the uncaught exception that ended the run ("" if none)
    exit_status,   \* the process exit status (-1 while running)
    message,       \* SpecChecks: the message string under test
    applied,       \* SpecChecks: the check function applied ("" before)
    outcome        \* SpecChecks: the outcome of that call

vars == <<argv, fs, pc, stmt, last_commit, error_count, calls, git_path,
          stdout, exc, exit_status, message, applied, outcome>>

mainVars == <<argv, fs, pc, stmt, last_commit, error_count, calls, git_path,
              stdout, exc, exit_status>>

checkVars == <<message, applied, outcome>>

----------------------------------------------------------------------------
(* Bounds of the model and constants of the program.                       *)

\* Longest free part of a generated message.
MaxCore == 2

\* The limit of header and body line length.
MaxLineLength == 100

----------------------------------------------------------------------------
(* Python values and call outcomes.                                        *)

PyStr(s) == [kind |-> "str", s |-> s]

FunctionObject == [kind |-> "function", s |-> <<>>]

PyNone == [kind |-> "None", s |-> <<>>]

Return(v) == [exc |-> "", ret |-> v]

Raise(e) == [exc |-> e, ret |-> ""]

\* bool(x) of a returned value: only True is truthy among True, False, None.
Truthy(r) == r.exc = "" /\ r.ret = "True"

----------------------------------------------------------------------------
(* Characters.                                                             *)

Lower == {"a", "b", "c", "d", "e", "f", "g", "h", "i", "j", "k", "l", "m",
          "n", "o", "p", "q", "r", "s", "t", "u", "v", "w", "x", "y", "z"}

Upper == {"A", "B", "C", "D", "E", "F", "G", "H", "I", "J", "K", "L", "M",
          "N", "O", "P", "Q", "R", "S", "T", "U", "V", "W", "X", "Y", "Z"}

\* str.isspace of one character (the whitespace str.split and str.strip remove)
IsSpace(c) == c \in {" ", "\n", "\t"}

\* the line boundaries of str.splitlines
IsLineBreak(c) == c = "\n"

\* str.isalpha of one character
isalpha(c) == c \in Lower \cup Upper

SetMin(S) == CHOOSE x \in S : \A y \in S : x <= y

SetMax(S) == CHOOSE x \in S : \A y \in S : x >= y

----------------------------------------------------------------------------
(* The str methods the checks use.                                         *)

\* s.strip(): s without its leading and trailing whitespace
strip(s) ==
    LET keep == {i \in 1..Len(s) : ~IsSpace(s[i])}
    IN  IF keep = {} THEN <<>> ELSE SubSeq(s, SetMin(keep), SetMax(keep))

\* s.splitlines(): the lines of s, without their line breaks; a final line
\* break opens no further line, and "" has no line at all.
RECURSIVE splitlinesFrom(_, _)
splitlinesFrom(s, start) ==
    LET breaks == {i \in start..Len(s) : IsLineBreak(s[i])}
    IN  IF start > Len(s) THEN <<>>
        ELSE IF breaks = {} THEN <<SubSeq(s, start, Len(s))>>
        ELSE <<SubSeq(s, start, SetMin(breaks) - 1)>>
                 \o splitlinesFrom(s, SetMin(breaks) + 1)

splitlines(s) == splitlinesFrom(s, 1)

\* s.split(): the maximal runs of non-whitespace characters of s
RECURSIVE splitFrom(_, _)
splitFrom(s, start) ==
    LET begins == {i \in start..Len(s) : ~IsSpace(s[i])}
    IN  IF begins = {} THEN <<>>
        ELSE LET b == SetMin(begins)
                 spaces == {i \in b..Len(s) : IsSpace(s[i])}
                 e == IF spaces = {} THEN Len(s) ELSE SetMin(spaces) - 1
             IN  <<SubSeq(s, b, e)>> \o splitFrom(s, e + 1)

split(s) == splitFrom(s, 1)

\* s.split(sep) for a one-character sep: the parts between the separators,
\* always at least one part
RECURSIVE splitSepFrom(_, _, _)
splitSepFrom(s, sep, start) ==
    LET seps == {i \in start..Len(s) : s[i] = sep}
    IN  IF seps = {} THEN <<SubSeq(s, start, Len(s))>>
        ELSE <<SubSeq(s, start, SetMin(seps) - 1)>>
                 \o splitSepFrom(s, sep, SetMin(seps) + 1)

splitSep(s, sep) == splitSepFrom(s, sep, 1)

\* a list's [-1]
Last(l) == l[Len(l)]

\* sep in s, for a one-character sep
Contains(s, sep) == \E i \in 1..Len(s) : s[i] = sep

\* s.startswith(prefixes) for a tuple of prefixes
startswith(s, prefixes) ==
    \E k \in 1..Len(prefixes) :
        /\ Len(prefixes[k]) <= Len(s)
        /\ SubSeq(s, 1, Len(prefixes[k])) = prefixes[k]

\* s.islower(): at least one cased character, and no uppercase one
islower(s) ==
    /\ \E i \in 1..Len(s) : s[i] \in Lower
    /\ \A i \in 1..Len(s) : s[i] \notin Upper

----------------------------------------------------------------------------
(* The seven checks.                                                       *)

conventional_commit_type ==
    << <<"b", "u", "i", "l", "d", ":">>,
       <<"c", "h", "o", "r", "e", ":">>,
       <<"c", "i", ":">>,
       <<"d", "o", "c", "s", ":">>,
       <<"f", "e", "a", "t", ":">>,
       <<"f", "i", "x", ":">>,
       <<"p", "e", "r", "f", ":">>,
       <<"r", "e", "f", "a", "c", "t", "o", "r", ":">>,
       <<"r", "e", "v", "e", "r", "t", ":">>,
       <<"s", "t", "y", "l", "e", ":">>,
       <<"t", "e", "s", "t", ":">> >>

\* An attribute lookup such as commit_message.split on a value that is no str
\* raises AttributeError before anything else happens.
header_type(commit_message) ==
    IF commit_message.kind # "str" THEN Raise("AttributeError")
    ELSE LET tokens == split(commit_message.s)
         IN  IF tokens = <<>> THEN Raise("IndexError")
             ELSE IF ~startswith(tokens[1], conventional_commit_type)
                  THEN Return("True")
                  ELSE Return("False")

\* subject_empty without the test for a header that has no colon
subject_empty_any_subject(commit_message) ==
    IF commit_message.kind # "str" THEN Raise("AttributeError")
    ELSE LET lines == splitlines(commit_message.s)
         IN  IF lines = <<>> THEN Raise("IndexError")
             ELSE LET commit_header == strip(lines[1])
                      commit_subject == Last(splitSep(commit_header, ":"))
                  IN  IF commit_subject = <<>>
                      THEN Return("True")
                      ELSE Return("False")

subject_empty(commit_message) ==
    IF commit_message.kind # "str" THEN Raise("AttributeError")
    ELSE LET lines == splitlines(commit_message.s)
         IN  IF lines = <<>> THEN Raise("IndexError")
             ELSE LET commit_header == strip(lines[1])
                      commit_subject == Last(splitSep(commit_header, ":"))
                  IN  IF ~Contains(commit_header, ":") \/ commit_subject = <<>>
                      THEN Return("True")
                      ELSE Return("False")

\* subject_length with >= in place of >
subject_length_ge(commit_message) ==
    IF commit_message.kind # "str" THEN Raise("AttributeError")
    ELSE LET lines == splitlines(commit_message.s)
         IN  IF lines = <<>> THEN Raise("IndexError")
             ELSE IF Len(strip(lines[1])) >= MaxLineLength
                  THEN Return("True")
                  ELSE Return("False")

subject_length(commit_message) ==
    IF commit_message.kind # "str" THEN Raise("AttributeError")
    ELSE LET lines == splitlines(commit_message.s)
         IN  IF lines = <<>> THEN Raise("IndexError")
             ELSE IF Len(strip(lines[1])) > MaxLineLength
                  THEN Return("True")
                  ELSE Return("False")

subject_case(commit_message) ==
    IF commit_message.kind # "str" THEN Raise("AttributeError")
    ELSE LET lines == splitlines(commit_message.s)
         IN  IF lines = <<>> THEN Raise("IndexError")
             ELSE LET commit_header == strip(lines[1])
                      commit_subject == Last(splitSep(commit_header, ":"))
                  IN  IF ~islower(commit_subject)
                      THEN Return("True")
                      ELSE Return("False")

subject_full_stop(commit_message) ==
    IF commit_message.kind # "str" THEN Raise("AttributeError")
    ELSE LET lines == splitlines(commit_message.s)
         IN  IF lines = <<>> THEN Raise("IndexError")
             ELSE LET commit_header == strip(lines[1])
                  IN  IF commit_header = <<>> THEN Raise("IndexError")
                      ELSE IF ~isalpha(Last(commit_header))
                           THEN Return("True")
                           ELSE Return("False")

\* The loop returns True at the second line if it is not blank; a loop that
\* runs out falls off the end of the function, which returns None.
body_leading_blank(commit_message) ==
    IF commit_message.kind # "str" THEN Raise("AttributeError")
    ELSE LET lines == splitlines(commit_message.s)
         IN  IF \E count \in 1..Len(lines) :
                    count = 2 /\ strip(lines[count]) # <<>>
             THEN Return("True")
             ELSE Return("None")

\* body_max_length that measures every line, the first two included
body_max_length_any(commit_message) ==
    IF commit_message.kind # "str" THEN Raise("AttributeError")
    ELSE LET lines == splitlines(commit_message.s)
         IN  IF \E count \in 1..Len(lines) :
                    count > 0 /\ Len(lines[count]) > MaxLineLength
             THEN Return("True")
             ELSE Return("None")

body_max_length(commit_message) ==
    IF commit_message.kind # "str" THEN Raise("AttributeError")
    ELSE LET lines == splitlines(commit_message.s)
         IN  IF \E count \in 1..Len(lines) :
                    count > 2 /\ Len(lines[count]) > MaxLineLength
             THEN Return("True")
             ELSE Return("None")

\* The checks in the order main() calls them.
CheckNames == <<"header_type", "subject_empty", "subject_length",
                "subject_case", "subject_full_stop", "body_leading_blank",
                "body_max_length">>

\* f(v) for the check function named f
Call(f, v) ==
    CASE f = "header_type" -> header_type(v)
      [] f = "subject_empty" -> subject_empty(v)
      [] f = "subject_length" -> subject_length(v)
      [] f = "subject_case" -> subject_case(v)
      [] f = "subject_full_stop" -> subject_full_stop(v)
      [] f = "body_leading_blank" -> body_leading_blank(v)
      [] f = "body_max_length" -> body_max_length(v)

----------------------------------------------------------------------------
(* The environment: the command line and what git finds.                   *)

Paths == {".", "repo"}

Alphabet == {"a", "A", "1", ".", ":", " ", "\n"}

fix == <<"f", "i", "x", ":">>

foo == <<"f", "o", "o", ":">>

scoped == <<"f", "i", "x", "(", "a", ")", ":">>

\* What git log -1 --pretty=%B may write for a repository with a commit: a
\* message that is not blank, with or without a type and a subject, possibly
\* after a blank first line.
GitOutputs ==
    {t \o <<" ", x>> \o <<"\n">> : t \in {fix, foo, <<"\n">>}, x \in Alphabet \ {" ", "\n"}}
        \cup {fix \o <<"\n">>, foo \o <<"\n">>, fix \o <<" ", "\n">>}

RepoStates ==
    {[kind |-> "not_git", out |-> <<>>], [kind |-> "no_commits", out |-> <<>>]}
        \cup {[kind |-> "commits", out |-> m] : m \in GitOutputs}

\* commit_msg(path): git status fails outside a repository and check=True
\* turns that into CalledProcessError; else the stdout of git log is
\* returned, which is "" when the repository has no commit (check=False).
\* The CompletedProcess of line 26 is always truthy: line 30 is never reached.
commit_msg(path) ==
    IF fs[path].kind = "not_git"
    THEN [exc |-> "CalledProcessError", val |-> PyNone]
    ELSE [exc |-> "", val |-> PyStr(fs[path].out)]

----------------------------------------------------------------------------
(* main()                                                                  *)

NoOutcome == [exc |-> "", ret |-> ""]

Init ==
    /\ argv \in {<<"commitlint.py">>} \cup {<<"commitlint.py", p>> : p \in Paths}
    /\ fs \in [Paths -> RepoStates]
    /\ pc = "start"
    /\ stmt = 1
    /\ last_commit = PyNone
    /\ error_count = 0
    /\ calls = <<>>
    /\ git_path = ""
    /\ stdout = <<>>
    /\ exc = ""
    /\ exit_status = -1
    /\ message = <<>>
    /\ applied = ""
    /\ outcome = NoOutcome

\* Lines 157-158: error_count = 0; last_commit = commit_msg(sys.argv[1]).
\* sys.argv[1] is evaluated first and raises IndexError when no argument was
\* given; an uncaught exception ends the process with status 1.
GetCommit ==
    /\ pc = "start"
    /\ IF Len(argv) < 2
       THEN /\ pc' = "done"
            /\ exc' = "IndexError"
            /\ exit_status' = 1
            /\ UNCHANGED <<last_commit, git_path>>
       ELSE LET r == commit_msg(argv[2])
            IN  /\ git_path' = argv[2]
                /\ IF r.exc # ""
                   THEN /\ pc' = "done"
                        /\ exc' = r.exc
                        /\ exit_status' = 1
                        /\ UNCHANGED last_commit
                   ELSE /\ pc' = "checks"
                        /\ last_commit' = r.val
                        /\ UNCHANGED <<exc, exit_status>>
    /\ UNCHANGED <<argv, fs, stmt, error_count, calls, stdout, checkVars>>

\* The argument of the stmt-th call: last_commit on lines 160 and 162, the
\* function commit_msg itself on lines 164-172.
Argument(i) == IF i <= 2 THEN last_commit ELSE FunctionObject

\* main() has no try: an exception raised by a call leaves main() at once.
Propagates(r) == r.exc # ""

\* One statement of lines 160-182: the stmt-th "if check(...): error_count
\* += 1" (a check prints its diagnostic when it returns True), or, after the
\* seventh, the summary and sys.exit.
ExecStatement ==
    /\ pc = "checks"
    /\ IF stmt <= Len(CheckNames)
       THEN LET f == CheckNames[stmt]
                r == Call(f, Argument(stmt))
            IN  /\ calls' = Append(calls, [fn |-> f, arg |-> Argument(stmt), out |-> r])
                /\ IF Propagates(r)
                   THEN /\ pc' = "done"
                        /\ exc' = r.exc
                        /\ exit_status' = 1
                        /\ UNCHANGED <<stmt, error_count, stdout>>
                   ELSE /\ stmt' = stmt + 1
                        /\ error_count' = IF Truthy(r) THEN error_count + 1 ELSE error_count
                        /\ stdout' = IF Truthy(r) THEN Append(stdout, f) ELSE stdout
                        /\ UNCHANGED <<pc, exc, exit_status>>
       ELSE /\ pc' = "done"
            /\ stdout' = Append(stdout, IF error_count > 0 THEN "errors" ELSE "valid")
            /\ exit_status' = IF error_count > 0 THEN 1 ELSE 0
            /\ UNCHANGED <<stmt, error_count, calls, exc>>
    /\ UNCHANGED <<argv, fs, last_commit, git_path, checkVars>>

Next == GetCommit \/ ExecStatement

Spec == Init /\ [][Next]_vars

----------------------------------------------------------------------------
(* The check functions applied to message strings.                         *)

Rep(c, n) == [i \in 1..n |-> c]

RECURSIVE SeqsUpTo(_, _)
SeqsUpTo(S, n) ==
    IF n = 0 THEN {<<>>}
    ELSE LET shorter == SeqsUpTo(S, n - 1)
         IN  shorter \cup {Append(s, x) : s \in shorter, x \in S}

Types == {conventional_commit_type[k] : k \in 1..Len(conventional_commit_type)}
             \cup {foo, scoped, <<>>}

\* The runs of "a" before and after the free part of a message: the first
\* brings a four-character type to the length limit, the second is a line of
\* about the length limit.
Pads ==
    {<<0, 0>>, <<MaxLineLength - 4, 0>>, <<MaxLineLength - 4, MaxLineLength>>,
     <<MaxLineLength - 4, MaxLineLength + 1>>, <<0, MaxLineLength + 1>>}

\* A message: a type, a run of "a", a free part and a run of "a"; or a blank
\* first line, a type and a free part.
Messages ==
    {t \o Rep("a", n[1]) \o c \o Rep("a", n[2]) :
        t \in Types, n \in Pads, c \in SeqsUpTo(Alphabet, MaxCore)}
    \cup {<<"\n">> \o t \o c : t \in Types, c \in SeqsUpTo(Alphabet, MaxCore)}

InitChecks ==
    /\ message \in Messages
    /\ applied = ""
    /\ outcome = NoOutcome
    /\ argv = <<"commitlint.py">>
    /\ fs = [p \in Paths |-> [kind |-> "not_git", out |-> <<>>]]
    /\ pc = "start"
    /\ stmt = 1
    /\ last_commit = PyNone
    /\ error_count = 0
    /\ calls = <<>>
    /\ git_path = ""
    /\ stdout = <<>>
    /\ exc = ""
    /\ exit_status = -1

\* check(message) for one of the seven check functions
ApplyCheck ==
    /\ applied = ""
    /\ \E k \in 1..Len(CheckNames) :
           /\ applied' = CheckNames[k]
           /\ outcome' = Call(CheckNames[k], PyStr(message))
    /\ UNCHANGED <<message, mainVars>>

NextChecks == ApplyCheck

SpecChecks == InitChecks /\ [][NextChecks]_vars

----------------------------------------------------------------------------
(* Notions the properties are stated in.                                   *)

\* main() went past line 158 with the message of an existing commit.
Obtained ==
    /\ pc # "start"
    /\ git_path \in Paths
    /\ fs[git_path].kind = "commits"

\* The names of the check functions called so far, in call order.
Called == [k \in 1..Len(calls) |-> calls[k].fn]

\* The number of checks that report a violation on the message string m.
ViolationCount(m) ==
    Cardinality({k \in 1..Len(CheckNames) : Truthy(Call(CheckNames[k], PyStr(m)))})

\* m has a first line.
HasHeader(m) == m # <<>>

\* The first line of m, trimmed.
Header(m) == strip(splitlines(m)[1])

\* The position of the last colon of h, 0 when h has none.
LastColon(h) ==
    LET colons == {i \in 1..Len(h) : h[i] = ":"}
    IN  IF colons = {} THEN 0 ELSE SetMax(colons)

\* The part of h after its last colon.
Subject(h) == SubSeq(h, LastColon(h) + 1, Len(h))

\* m is one line: it is not empty and no character follows a line break.
SingleLine(m) ==
    /\ m # <<>>
    /\ \A i \in 1..Len(m) : IsLineBreak(m[i]) => i = Len(m)

\* m begins with an allowed type prefix followed by a non-empty subject
\* without uppercase letter that ends with a letter, and has no body or a
\* blank second line and later lines within the limit.  The length of what
\* is bounded by the limit is a parameter: the subject, or the whole header.
ValidMessage(m, bounded) ==
    /\ HasHeader(m)
    /\ LET lines == splitlines(m)
           h == strip(lines[1])
       IN  /\ \E k \in 1..Len(conventional_commit_type) :
                  LET p == conventional_commit_type[k]
                      subj == strip(SubSeq(h, Len(p) + 1, Len(h)))
                  IN  /\ Len(p) <= Len(lines[1])
                      /\ SubSeq(lines[1], 1, Len(p)) = p
                      /\ subj # <<>>
                      /\ \A i \in 1..Len(subj) : subj[i] \notin Upper
                      /\ subj[Len(subj)] \in Lower \cup Upper
                      /\ Len(IF bounded = "subject" THEN subj ELSE h) <= MaxLineLength
           /\ \/ Len(lines) = 1
              \/ /\ strip(lines[2]) = <<>>
                 /\ \A k \in 3..Len(lines) : Len(lines[k]) <= MaxLineLength

NoViolation(r) == r.exc = "" /\ r.ret # "True"

----------------------------------------------------------------------------
(* Properties of main(), checked under Spec.                               *)

\* C1: a run on a retrieved commit message ends with exit status 0 iff no
\* check reports a violation on that message, and with 1 iff one does.
C1_ExitStatusIffViolations ==
    (Obtained /\ pc = "done") =>
        /\ exit_status = 0 <=> ViolationCount(last_commit.s) = 0
        /\ exit_status = 1 <=> ViolationCount(last_commit.s) > 0

\* C2: a run that obtained a commit message has, when it ends, called all
\* seven checks on that message in the fixed order.
C2_AllSevenInOrder ==
    (Obtained /\ pc = "done") =>
        /\ Called = CheckNames
        /\ \A k \in 1..Len(calls) : calls[k].arg = last_commit

\* C4: started without the path argument, main() asks git about "." and
\* does not end in an error for the missing argument.
C4_DefaultsToCurrentDirectory ==
    (Len(argv) = 1 /\ pc # "start") => (git_path = "." /\ exc # "IndexError")

\* C5: when the path is no repository or the repository has no commit, no
\* check is ever called.
C5_NoCheckWithoutMessage ==
    (Len(argv) = 2 /\ fs[argv[2]].kind \in {"not_git", "no_commits"}) =>
        calls = <<>>

\* C10: when a check fails with an internal error, every remaining check is
\* still called before the run ends.
C10_FailureIsolated ==
    (pc = "done" /\ \E k \in 1..Len(calls) : calls[k].out.exc # "") =>
        Called = CheckNames


----------------------------------------------------------------------------
(* Properties of the check functions, checked under SpecChecks.            *)

\* C3 as stated: on a message with an allowed type prefix, a non-empty
\* lowercase subject of at most 100 characters ending with a letter, and no
\* body or a blank second line and later lines of at most 100 characters, no
\* check reports a violation.
C3_ValidMessagePasses_SubjectBound ==
    (applied # "" /\ ~NoViolation(outcome)) => ~ValidMessage(message, "subject")

\* C3 as amended: the same with the whole trimmed header, type prefix
\* included, of at most 100 characters.
C3_ValidMessagePasses ==
    (applied # "" /\ ~NoViolation(outcome)) => ~ValidMessage(message, "header")

\* C3 witness: subject_length applied to a valid message whose header has
\* exactly 100 characters and that has a body.
C3_Witness ==
    /\ applied = "subject_length"
    /\ ValidMessage(message, "header")
    /\ Len(Header(message)) = MaxLineLength
    /\ Len(splitlines(message)) >= 3
    /\ outcome = Return("False")

\* C6: on every message that is not blank, header_type flags a violation iff
\* the first whitespace-delimited token of the trimmed first line does not
\* begin with an allowed literal (a blank first line has no such token, also
\* when later lines contain text).
C6_HeaderTypeOfHeader ==
    (applied = "header_type" /\ \E i \in 1..Len(message) : ~IsSpace(message[i])) =>
        LET tokens == split(Header(message))
        IN  Truthy(outcome) <=>
                (tokens = <<>> \/ ~startswith(tokens[1], conventional_commit_type))

\* C7: on a header with a colon, subject_case flags a violation iff the part
\* of the trimmed header after its last colon contains an uppercase letter.
C7_SubjectCaseIffUppercase ==
    (applied = "subject_case" /\ HasHeader(message)
        /\ LastColon(Header(message)) > 0) =>
        LET subj == Subject(Header(message))
        IN  Truthy(outcome) <=> \E i \in 1..Len(subj) : subj[i] \in Upper

\* C8: subject_empty flags a violation iff the trimmed header has no colon
\* or only whitespace follows its last colon.
C8_SubjectEmpty ==
    (applied = "subject_empty" /\ HasHeader(message)) =>
        LET h == Header(message)
        IN  /\ outcome.exc = ""
            /\ Truthy(outcome) <=>
                   \/ LastColon(h) = 0
                   \/ \A i \in (LastColon(h) + 1)..Len(h) : IsSpace(h[i])

\* C8 witness: subject_empty flagged a first line that ends with a colon
\* followed by spaces.
C8_Witness ==
    /\ applied = "subject_empty"
    /\ HasHeader(message)
    /\ Len(message) >= 2
    /\ message[Len(message)] = " "
    /\ message[Len(message) - 1] = " "
    /\ Header(message) # <<>>
    /\ Last(Header(message)) = ":"
    /\ outcome = Return("True")

\* C9: on a message of a single line, body_leading_blank and body_max_length
\* return without reporting a violation.
C9_SingleLineBodyChecks ==
    (applied \in {"body_leading_blank", "body_max_length"} /\ SingleLine(message)) =>
        NoViolation(outcome)

\* C9 witness: body_max_length applied to a single line longer than the limit.
C9_Witness ==
    /\ applied = "body_max_length"
    /\ SingleLine(message)
    /\ Len(message) > MaxLineLength + 1
    /\ outcome = Return("None")

====
